---- MODULE Spec2Model ----
(***************************************************************************)
(* Steam Game Comparator (sgc.py): URL normalisation, profile fetch and    *)
(* classification, name / game-list extraction, the shared catalog         *)
(* master_games, the input loop find_player_data and find_common_games.    *)
(*                                                                         *)
(* Python strings are sequences of one-character strings; indices handed   *)
(* to Find / Slice are 0-based as in Python.                               *)
(***************************************************************************)
EXTENDS Integers, Sequences, FiniteSets, TLC

VARIABLES
    pc,            \* "input": the loop of find_player_data awaits an entry;
                   \* "done" / "crashed": main has returned / died on an
                   \* uncaught exception; "call" / "return": a single call
    player_data,   \* the list built by find_player_data
    master_games,  \* the global dict appid -> title
    first_title,   \* history: the first title stored for each appid
    shared_games,  \* main's shared_games
    chart,         \* create_chart has written its file
    fault,         \* the uncaught exception, "" if none
    last           \* the latest entry and what became of it

vars == <<pc, player_data, master_games, first_title, shared_games, chart,
          fault, last>>

(***************************************************************************)
(* Bounds of the model                                                     *)
(***************************************************************************)
MaxPlayers == 2    \* the input loop is cut off after this many players
MaxTail == 3       \* characters following the prefix of a raw identifier
MaxRecs == 2       \* records in the game list of a generated page
MaxOwners == 3     \* players handed to find_common_games on its own

(***************************************************************************)
(* String literals of the program                                          *)
(***************************************************************************)
SCHEME == <<"h", "t", "t", "p", ":", "/", "/">>
HOST == <<"s", "t", "e", "a", "m", "c", "o", "m", "m", "u", "n", "i", "t", "y", ".", "c", "o", "m", "/">>
PROFILES == <<"p", "r", "o", "f", "i", "l", "e", "s", "/">>
ID == <<"i", "d", "/">>
GAMES_TAB == <<"/", "g", "a", "m", "e", "s", "/", "?", "t", "a", "b", "=", "a", "l", "l">>
PERSONA == <<"p", "e", "r", "s", "o", "n", "a", "N", "a", "m", "e">>
RGGAMES == <<"r", "g", "G", "a", "m", "e", "s">>
APPID == <<"a", "p", "p", "i", "d">>
NAME == <<"n", "a", "m", "e">>
Q == "\""

(***************************************************************************)
(* Python string primitives                                                *)
(***************************************************************************)
Min(a, b) == IF a < b THEN a ELSE b

\* s[a:b] for 0 <= a, 0 <= b
Slice(s, a, b) == SubSeq(s, a + 1, Min(b, Len(s)))

\* s[a:]
SliceFrom(s, a) == SubSeq(s, a + 1, Len(s))

\* sub occurs in s at 0-based index i
OccursAt(s, sub, i) ==
    /\ i >= 0
    /\ i + Len(sub) <= Len(s)
    /\ SubSeq(s, i + 1, i + Len(sub)) = sub

\* s.find(sub, start): lowest index >= start where sub occurs, else -1
RECURSIVE Find(_, _, _)
Find(s, sub, start) ==
    IF start + Len(sub) > Len(s) THEN -1
    ELSE IF OccursAt(s, sub, start) THEN start
    ELSE Find(s, sub, start + 1)

\* s.index(sub) raises ValueError exactly when s.find(sub) is -1
Index(s, sub) == Find(s, sub, 0)

(***************************************************************************)
(* verify_steam_url_format                                                 *)
(***************************************************************************)
formats == << SCHEME \o HOST \o PROFILES,
              SCHEME \o HOST \o ID,
              HOST \o PROFILES,
              HOST \o ID >>

\* variant: a format found anywhere in the entry is accepted
MatchedFormat_Anywhere(url) ==
    LET hits == {k \in 1..Len(formats) : Find(url, formats[k], 0) # -1}
    IN  IF hits = {} THEN 0
        ELSE CHOOSE k \in hits : \A j \in hits : k <= j

\* variant: an entry matching no format is taken as the last one
MatchedFormat_Fallback(url) ==
    LET hits == {k \in 1..Len(formats) : Find(url, formats[k], 0) = 0}
    IN  IF hits = {} THEN Len(formats)
        ELSE CHOOSE k \in hits : \A j \in hits : k <= j

\* index (1..4) of the first accepted format found at index 0, 0 if none
MatchedFormat(url) ==
    LET hits == {k \in 1..Len(formats) : Find(url, formats[k], 0) = 0}
    IN  IF hits = {} THEN 0
        ELSE CHOOSE k \in hits : \A j \in hits : k <= j

\* variant: the cut keeps the slash it found
Truncate_KeepSlash(url, trailing_slash) ==
    IF trailing_slash >= 0 THEN Slice(url, 0, trailing_slash + 1) ELSE url

Truncate(url, trailing_slash) ==
    IF trailing_slash >= 0 THEN Slice(url, 0, trailing_slash) ELSE url

AddScheme(url) ==
    IF Find(url, SCHEME, 0) = -1 THEN SCHEME \o url ELSE url

verify_steam_url_format(url) ==
    LET k == MatchedFormat(url)
    IN  IF k = 0
        THEN [exc |-> "MalformedSteamURL", url |-> <<>>]
        ELSE LET trailing_slash == Find(url, <<"/">>, Len(formats[k]))
             IN  [exc |-> "ok", url |-> AddScheme(Truncate(url, trailing_slash))]

(***************************************************************************)
(* json.loads on the fragment cut out of the page.  A decoded value is a   *)
(* record [t, v]: t is "str" or "num" (v the characters), "list" (v the    *)
(* elements) or "dict" (v the <<key, value>> pairs in document order).     *)
(* The fragments carry no whitespace, escapes or literals (true, null).    *)
(***************************************************************************)
NoVal == [t |-> "none", v |-> <<>>]

Fail == [ok |-> FALSE, val |-> NoVal, pos |-> 0]

Digits == {"0", "1", "2", "3", "4", "5", "6", "7", "8", "9"}

\* position of the first quote at or after i, 0 if there is none
RECURSIVE ScanQuote(_, _)
ScanQuote(s, i) ==
    IF i > Len(s) THEN 0
    ELSE IF s[i] = Q THEN i
    ELSE ScanQuote(s, i + 1)

\* position of the first non-digit at or after i
RECURSIVE ScanDigits(_, _)
ScanDigits(s, i) ==
    IF i <= Len(s) /\ s[i] \in Digits THEN ScanDigits(s, i + 1) ELSE i

\* a string whose opening quote is s[i]
ParseString(s, i) ==
    LET j == ScanQuote(s, i + 1)
    IN  IF j = 0 THEN Fail
        ELSE [ok |-> TRUE,
              val |-> [t |-> "str", v |-> SubSeq(s, i + 1, j - 1)],
              pos |-> j + 1]

RECURSIVE ParseValue(_, _)
RECURSIVE ParseElems(_, _, _)
RECURSIVE ParseMembers(_, _, _)

ParseValue(s, i) ==
    IF i > Len(s) THEN Fail
    ELSE IF s[i] = Q THEN ParseString(s, i)
    ELSE IF s[i] \in Digits
    THEN LET j == ScanDigits(s, i)
         IN  [ok |-> TRUE,
              val |-> [t |-> "num", v |-> SubSeq(s, i, j - 1)],
              pos |-> j]
    ELSE IF s[i] = "["
    THEN IF i + 1 <= Len(s) /\ s[i + 1] = "]"
         THEN [ok |-> TRUE, val |-> [t |-> "list", v |-> <<>>], pos |-> i + 2]
         ELSE ParseElems(s, i + 1, <<>>)
    ELSE IF s[i] = "{"
    THEN IF i + 1 <= Len(s) /\ s[i + 1] = "}"
         THEN [ok |-> TRUE, val |-> [t |-> "dict", v |-> <<>>], pos |-> i + 2]
         ELSE ParseMembers(s, i + 1, <<>>)
    ELSE Fail

ParseElems(s, i, acc) ==
    LET r == ParseValue(s, i)
    IN  IF ~r.ok \/ r.pos > Len(s) THEN Fail
        ELSE IF s[r.pos] = ","
        THEN ParseElems(s, r.pos + 1, Append(acc, r.val))
        ELSE IF s[r.pos] = "]"
        THEN [ok |-> TRUE,
              val |-> [t |-> "list", v |-> Append(acc, r.val)],
              pos |-> r.pos + 1]
        ELSE Fail

ParseMembers(s, i, acc) ==
    IF i > Len(s) \/ s[i] # Q THEN Fail
    ELSE LET k == ParseString(s, i)
         IN  IF ~k.ok \/ k.pos > Len(s) \/ s[k.pos] # ":" THEN Fail
             ELSE LET r == ParseValue(s, k.pos + 1)
                  IN  IF ~r.ok \/ r.pos > Len(s) THEN Fail
                      ELSE IF s[r.pos] = ","
                      THEN ParseMembers(s, r.pos + 1,
                                        Append(acc, <<k.val.v, r.val>>))
                      ELSE IF s[r.pos] = "}"
                      THEN [ok |-> TRUE,
                            val |-> [t |-> "dict",
                                     v |-> Append(acc, <<k.val.v, r.val>>)],
                            pos |-> r.pos + 1]
                      ELSE Fail

\* json.loads(s): the whole of s must be one value, else JSONDecodeError
JsonLoads(s) ==
    LET r == ParseValue(s, 1)
    IN  IF r.ok /\ r.pos = Len(s) + 1
        THEN [ok |-> TRUE, val |-> r.val]
        ELSE [ok |-> FALSE, val |-> NoVal]

\* d[key] on a decoded dict: the last pair with that key
HasKey(d, key) == \E n \in 1..Len(d.v) : d.v[n][1] = key

GetItem(d, key) ==
    LET hits == {n \in 1..Len(d.v) : d.v[n][1] = key}
    IN  d.v[CHOOSE n \in hits : \A m \in hits : m <= n][2]

\* set.add(x) raises TypeError for a list or a dict
Hashable(x) == x.t \in {"str", "num"}

(***************************************************************************)
(* A Python dict, kept in insertion order: a sequence of [k, v] records.   *)
(***************************************************************************)
Keys(d) == {d[n].k : n \in 1..Len(d)}

DictGet(d, key) == d[CHOOSE n \in 1..Len(d) : d[n].k = key].v

\* variant: every store adds an entry
DictSet_Append(d, key, val) == Append(d, [k |-> key, v |-> val])

\* variant: a store under a present key moves the key to the end
DictSet_MoveToEnd(d, key, val) ==
    Append(SelectSeq(d, LAMBDA e : e.k # key), [k |-> key, v |-> val])

\* variant: a store under a new key is lost
DictSet_NoInsert(d, key, val) ==
    IF key \in Keys(d)
    THEN [n \in 1..Len(d) |-> IF d[n].k = key THEN [k |-> key, v |-> val] ELSE d[n]]
    ELSE d

\* d[key] = val: a present key keeps its place and takes the new value
DictSet(d, key, val) ==
    IF key \in Keys(d)
    THEN [n \in 1..Len(d) |-> IF d[n].k = key THEN [k |-> key, v |-> val] ELSE d[n]]
    ELSE Append(d, [k |-> key, v |-> val])

\* record of the first value ever stored under each key
FirstSet(d, key, val) ==
    IF key \in Keys(d) THEN d ELSE Append(d, [k |-> key, v |-> val])

(***************************************************************************)
(* get_html and get_player_and_games.  A response is                       *)
(* [status, html, games_list, private, content]: the status code, whether  *)
(* the content type holds 'text/html', whether the parsed page has a       *)
(* div.games_list / a div.profile_private_info, and soup.prettify().       *)
(***************************************************************************)
\* variant: the content type is not asserted
get_html_StatusOnly(resp) == resp.status = 200

\* both assertions of get_html pass
get_html(resp) == resp.status = 200 /\ resp.html

\* variant: the private element is looked for first
Classify_PrivateFirst(resp) ==
    IF resp.private THEN "private"
    ELSE IF resp.games_list THEN "viable"
    ELSE "missing"

Classify(resp) ==
    IF resp.games_list THEN "viable"
    ELSE IF resp.private THEN "private"
    ELSE "missing"

\* lines 72-78: the name fragment and its decoding
ExtractName(content_str) ==
    LET i == Index(content_str, PERSONA)
    IN  IF i = -1 THEN [exc |-> "FindNameError", name |-> <<>>]
        ELSE LET js_name == SliceFrom(content_str, i)
                 q  == Index(js_name, <<Q>>)
                 sc == Index(js_name, <<";">>)
             IN  IF q = -1 \/ sc = -1
                 THEN [exc |-> "FindNameError", name |-> <<>>]
                 ELSE LET r == JsonLoads(Slice(js_name, q, sc))
                      IN  IF r.ok THEN [exc |-> "ok", name |-> r.val.v]
                          ELSE [exc |-> "JSONDecodeError", name |-> <<>>]

\* lines 80-86: the game-list fragment and its decoding
ExtractGames(content_str) ==
    LET i == Index(content_str, RGGAMES)
    IN  IF i = -1 THEN [exc |-> "FindGamesError", val |-> NoVal]
        ELSE LET js_str == SliceFrom(content_str, i)
                 lb == Index(js_str, <<"[">>)
                 rb == Index(js_str, <<"]">>)
             IN  IF lb = -1 \/ rb = -1
                 THEN [exc |-> "FindGamesError", val |-> NoVal]
                 ELSE LET r == JsonLoads(Slice(js_str, lb, rb + 1))
                      IN  IF r.ok THEN [exc |-> "ok", val |-> r.val]
                          ELSE [exc |-> "JSONDecodeError", val |-> NoVal]

\* lines 89-93: the loop over the decoded list js, from element n on.
\* d['name'] is evaluated before the store into master_games.
RECURSIVE StoreGames(_, _, _, _, _)
StoreGames(js, n, player_games, mg, ft) ==
    IF n > Len(js)
    THEN [exc |-> "ok", games |-> player_games, master |-> mg, first |-> ft]
    ELSE LET d == js[n]
         IN  IF d.t # "dict"
             THEN [exc |-> "TypeError", games |-> player_games,
                   master |-> mg, first |-> ft]
             ELSE IF ~HasKey(d, APPID)
             THEN [exc |-> "KeyError", games |-> player_games,
                   master |-> mg, first |-> ft]
             ELSE IF ~Hashable(GetItem(d, APPID))
             THEN [exc |-> "TypeError", games |-> player_games,
                   master |-> mg, first |-> ft]
             ELSE IF ~HasKey(d, NAME)
             THEN [exc |-> "KeyError",
                   games |-> player_games \cup {GetItem(d, APPID)},
                   master |-> mg, first |-> ft]
             ELSE StoreGames(js, n + 1,
                             player_games \cup {GetItem(d, APPID)},
                             DictSet(mg, GetItem(d, APPID), GetItem(d, NAME)),
                             FirstSet(ft, GetItem(d, APPID), GetItem(d, NAME)))

Outcome(exc, stage, name, games, mg, ft) ==
    [exc |-> exc, stage |-> stage, name |-> name, games |-> games,
     master |-> mg, first |-> ft]

\* lines 64-86: what the response alone decides, up to the decoded list
LoadPage(resp) ==
    IF ~get_html(resp) THEN [exc |-> "AssertionError", stage |-> "fetch",
                             name |-> <<>>, js_value |-> <<>>]
    ELSE IF Classify(resp) = "private"
    THEN [exc |-> "PrivateProfile", stage |-> "classify",
          name |-> <<>>, js_value |-> <<>>]
    ELSE IF Classify(resp) = "missing"
    THEN [exc |-> "MissingProfile", stage |-> "classify",
          name |-> <<>>, js_value |-> <<>>]
    ELSE LET nm == ExtractName(resp.content)
         IN  IF nm.exc # "ok"
             THEN [exc |-> nm.exc, stage |-> "name",
                   name |-> <<>>, js_value |-> <<>>]
             ELSE LET gm == ExtractGames(resp.content)
                  IN  IF gm.exc # "ok"
                      THEN [exc |-> gm.exc, stage |-> "games",
                            name |-> <<>>, js_value |-> <<>>]
                      ELSE [exc |-> "ok", stage |-> "games",
                            name |-> nm.name, js_value |-> gm.val.v]

\* page is LoadPage of the response; mg is master_games at the call and ft
\* the record of first titles
get_player_and_games(page, mg, ft) ==
    IF page.exc # "ok"
    THEN Outcome(page.exc, page.stage, <<>>, {}, mg, ft)
    ELSE LET st == StoreGames(page.js_value, 1, {}, mg, ft)
         IN  IF st.exc # "ok"
             THEN Outcome(st.exc, "games", <<>>, {}, st.master, st.first)
             ELSE Outcome("ok", "done", page.name, st.games,
                          st.master, st.first)

(***************************************************************************)
(* find_common_games                                                       *)
(***************************************************************************)
\* current_game: who owns appid, in the order of the player list
CurrentGame(appid, pd) == [n \in 1..Len(pd) |-> appid \in pd[n].games]

\* variant: the count starts at one
TotalOwners_FromOne(current_game) ==
    Cardinality({n \in 1..Len(current_game) : current_game[n]}) + 1

TotalOwners(current_game) ==
    Cardinality({n \in 1..Len(current_game) : current_game[n]})

\* the loop over master_games from its n-th key on
RECURSIVE SharedFrom(_, _, _, _)
SharedFrom(mg, n, pd, shared) ==
    IF n > Len(mg) THEN shared
    ELSE SharedFrom(mg, n + 1, pd,
                    IF TotalOwners(CurrentGame(mg[n].k, pd)) > 1
                    THEN DictSet(shared, mg[n].k, CurrentGame(mg[n].k, pd))
                    ELSE shared)

\* variant: an empty dict is returned as it is
find_common_games_Empty(pd, mg) ==
    [none |-> FALSE, d |-> SharedFrom(mg, 1, pd, <<>>)]

\* [none |-> TRUE] stands for Python's None
find_common_games(pd, mg) ==
    LET shared == SharedFrom(mg, 1, pd, <<>>)
    IN  IF Len(shared) = 0 THEN [none |-> TRUE, d |-> <<>>]
        ELSE [none |-> FALSE, d |-> shared]

(***************************************************************************)
(* Pages.  A fixture [nk, name, gk, recs] describes the two script-level   *)
(* definitions of a games page; Render writes the text prettify() hands to *)
(* the extraction.  nk / gk say how the name / game-list definition is     *)
(* written: "ok", "absent", or with one delimiter dropped.                 *)
(***************************************************************************)
Rec(id, title) == [has_id |-> TRUE, id |-> id, has_title |-> TRUE, title |-> title]

NoTitle(id) == [has_id |-> TRUE, id |-> id, has_title |-> FALSE, title |-> <<>>]

NoId(title) == [has_id |-> FALSE, id |-> "0", has_title |-> TRUE, title |-> title]

EncStr(chars) == <<Q>> \o chars \o <<Q>>

EncRec(r) ==
    <<"{">>
    \o (IF r.has_id THEN EncStr(APPID) \o <<":", r.id>> ELSE <<>>)
    \o (IF r.has_id /\ r.has_title THEN <<",">> ELSE <<>>)
    \o (IF r.has_title THEN EncStr(NAME) \o <<":">> \o EncStr(r.title) ELSE <<>>)
    \o <<"}">>

RECURSIVE EncRecs(_)
EncRecs(recs) ==
    IF Len(recs) = 0 THEN <<>>
    ELSE IF Len(recs) = 1 THEN EncRec(recs[1])
    ELSE EncRec(recs[1]) \o <<",">> \o EncRecs(Tail(recs))

EncList(recs) == <<"[">> \o EncRecs(recs) \o <<"]">>

NamePart(nk, name) ==
    CASE nk = "ok"      -> PERSONA \o <<"=">> \o EncStr(name) \o <<";">>
      [] nk = "noquote" -> PERSONA \o <<"=">> \o name \o <<";">>
      [] nk = "noterm"  -> PERSONA \o <<"=">> \o EncStr(name)
      [] OTHER          -> <<>>

GamesPart(gk, recs) ==
    CASE gk = "ok"      -> RGGAMES \o <<"=">> \o EncList(recs) \o <<";">>
      [] gk = "noopen"  -> RGGAMES \o <<"=">> \o Tail(EncList(recs)) \o <<";">>
      [] gk = "noclose" -> RGGAMES \o <<"=">> \o EncRecs(recs) \o <<";">>
      [] gk = "garbage" -> RGGAMES \o <<"=", "[", "x", "]", ";">>
      [] gk = "scalar"  -> RGGAMES \o <<"=", "[", "7", "]", ";">>
      [] OTHER          -> <<>>

Render(fx) == <<"<">> \o NamePart(fx.nk, fx.name) \o <<" ">>
              \o GamesPart(fx.gk, fx.recs) \o <<">">>

Fixture(nk, name, gk, recs) == [nk |-> nk, name |-> name, gk |-> gk, recs |-> recs]

SeqsUpTo(S, n) == UNION {[1..m -> S] : m \in 0..n}

\* the records of a fixture are all complete
Complete(recs) == \A n \in 1..Len(recs) : recs[n].has_id /\ recs[n].has_title

WellFormed(fx) == fx.nk = "ok" /\ fx.gk = "ok" /\ Complete(fx.recs)

Response(h, fx) ==
    [status |-> h.status, html |-> h.html, games_list |-> h.games_list,
     private |-> h.private, content |-> Render(fx)]

Headers == [status : {200, 404}, html : BOOLEAN,
            games_list : BOOLEAN, private : BOOLEAN]

Viable == [status |-> 200, html |-> TRUE, games_list |-> TRUE, private |-> FALSE]

PlainFx == Fixture("ok", <<"a">>, "ok", <<>>)

(***************************************************************************)
(* Inputs of a run                                                         *)
(***************************************************************************)
RunUrls == { HOST \o ID \o <<"a">>,
             <<"a">>,
             HOST \o <<"a">>,
             <<"x">> \o HOST \o ID \o <<"a">> }

RunRecLists == { <<>>,
                 <<Rec("1", <<"x">>)>>,
                 <<Rec("1", <<"y">>), Rec("2", <<"x">>)>>,
                 <<Rec("1", <<"x">>), Rec("1", <<"y">>)>>,
                 <<Rec("2", <<"x">>), Rec("1", <<"x">>)>>,
                 <<Rec("2", <<"x">>), NoTitle("1")>>,
                 <<Rec("3", <<"z">>), NoId(<<"x">>)>> }

RunFixtures ==
    {Fixture("ok", <<"a">>, "ok", recs) : recs \in RunRecLists}
    \cup {Fixture("ok", <<"b">>, gk, <<>>) : gk \in {"ok", "absent", "garbage"}}
    \cup {Fixture(nk, <<"b">>, "ok", <<>>) : nk \in {"absent", "noterm"}}

\* the page text matters only when the page is fetched and viable
RunInputs ==
    {in \in Headers \X RunFixtures :
        \/ in[1] = Viable
        \/ in[2] = PlainFx}

\* the entries of a run, verified once
RunAddresses == [raw \in RunUrls |-> verify_steam_url_format(raw)]

\* the pages of a run, loaded once
RunPages == [in \in RunInputs |-> LoadPage(Response(in[1], in[2]))]

(***************************************************************************)
(* The run: main, find_player_data                                         *)
(***************************************************************************)
NotComputed == [none |-> FALSE, d |-> <<>>]

NoHeader == [status |-> 0, html |-> FALSE, games_list |-> FALSE, private |-> FALSE]

Attempt(raw, url, h, fx, out, pre) ==
    [raw |-> raw, url |-> url, resp |-> h, fx |-> fx, exc |-> out.exc,
     stage |-> out.stage, name |-> out.name, games |-> out.games,
     pre_master |-> pre]

NoOutcome(exc, stage) ==
    [exc |-> exc, stage |-> stage, name |-> <<>>, games |-> {}]

NoAttempt(exc) ==
    Attempt(<<>>, <<>>, NoHeader, PlainFx, NoOutcome(exc, "none"), <<>>)

\* the exceptions find_player_data catches around get_player_and_games
Caught == {"PrivateProfile", "MissingProfile", "FindNameError", "FindGamesError"}

\* variant: a caught exception does not skip the append
AppendPlayer_AfterCaught(pd, out) ==
    IF out.exc \in Caught \cup {"ok"}
    THEN Append(pd, [nick |-> out.name, games |-> out.games])
    ELSE pd

\* line 309, reached only when no exception was raised
AppendPlayer(pd, out) ==
    IF out.exc = "ok"
    THEN Append(pd, [nick |-> out.name, games |-> out.games])
    ELSE pd

\* variant: one player is enough
EnoughPlayers_One(pd) == Len(pd) > 0

\* line 280: two or more players are there
EnoughPlayers(pd) == Len(pd) > 1

Init ==
    /\ pc = "input"
    /\ player_data = <<>>
    /\ master_games = <<>>
    /\ first_title = <<>>
    /\ shared_games = NotComputed
    /\ chart = FALSE
    /\ fault = ""
    /\ last = NoAttempt("none")

\* one pass of the loop on a non-empty entry
EnterUrl ==
    /\ pc = "input"
    /\ Len(player_data) < MaxPlayers
    /\ \E raw \in RunUrls :
         LET v == RunAddresses[raw]
         IN  \/ /\ v.exc # "ok"
                /\ last' = Attempt(raw, <<>>, NoHeader, PlainFx,
                                   NoOutcome(v.exc, "format"), master_games)
                /\ UNCHANGED <<pc, player_data, master_games, first_title, fault>>
             \/ /\ v.exc = "ok"
                /\ \E in \in RunInputs :
                     LET out == get_player_and_games(RunPages[in],
                                                     master_games, first_title)
                     IN  /\ last' = Attempt(raw, v.url \o GAMES_TAB, in[1], in[2],
                                            out, master_games)
                         /\ master_games' = out.master
                         /\ first_title' = out.first
                         /\ player_data' = AppendPlayer(player_data, out)
                         /\ pc' = IF out.exc \in Caught \cup {"ok"}
                                  THEN "input" ELSE "crashed"
                         /\ fault' = IF out.exc \in Caught \cup {"ok"}
                                     THEN fault ELSE out.exc
    /\ UNCHANGED <<shared_games, chart>>

\* an empty entry with fewer than two players: the loop goes on
RejectEmpty ==
    /\ pc = "input"
    /\ ~EnoughPlayers(player_data)
    /\ last' = NoAttempt("rejected")
    /\ UNCHANGED <<pc, player_data, master_games, first_title, shared_games,
                   chart, fault>>

\* an empty entry with two or more players: the loop ends and main goes on
\* to find_common_games and the chart.  The message of the else branch adds
\* a string and an int (line 333); open() needs the output/ directory.
Finish ==
    /\ pc = "input"
    /\ EnoughPlayers(player_data)
    /\ LET sg == find_common_games(player_data, master_games)
       IN  /\ shared_games' = sg
           /\ IF sg.none
              THEN pc' = "crashed" /\ fault' = "TypeError" /\ chart' = FALSE
              ELSE \E dir_exists \in BOOLEAN :
                     IF dir_exists
                     THEN pc' = "done" /\ fault' = fault /\ chart' = TRUE
                     ELSE pc' = "crashed" /\ fault' = "FileNotFoundError"
                          /\ chart' = FALSE
    /\ UNCHANGED <<player_data, master_games, first_title, last>>

Next == EnterUrl \/ RejectEmpty \/ Finish

Spec == Init /\ [][Next]_vars

(***************************************************************************)
(* verify_steam_url_format on its own: one call on a raw identifier made   *)
(* of an optional lead, an optional host and style, and a tail.            *)
(***************************************************************************)
Leads == {<<>>, SCHEME, <<"x">>}

Styles == {HOST \o PROFILES, HOST \o ID, HOST, <<>>}

TailChars == {"7", "/", "h"}

NormInputs ==
    {lead \o style \o tail :
        lead \in Leads, style \in Styles, tail \in SeqsUpTo(TailChars, MaxTail)}

InitNorm ==
    /\ pc = "call"
    /\ player_data = <<>>
    /\ master_games = <<>>
    /\ first_title = <<>>
    /\ shared_games = NotComputed
    /\ chart = FALSE
    /\ fault = ""
    /\ \E raw \in NormInputs :
         last = Attempt(raw, <<>>, NoHeader, PlainFx,
                        NoOutcome("pending", "format"), <<>>)

NormStep ==
    /\ pc = "call"
    /\ pc' = "return"
    /\ LET v == verify_steam_url_format(last.raw)
       IN  last' = [last EXCEPT !.url = v.url, !.exc = v.exc]
    /\ UNCHANGED <<player_data, master_games, first_title, shared_games,
                   chart, fault>>

SpecNorm == InitNorm /\ [][NormStep]_vars

(***************************************************************************)
(* get_player_and_games on its own: one call, on an empty master_games,    *)
(* that fetches a viable page rendered from a fixture.                     *)
(***************************************************************************)
NameKinds == {"ok", "absent", "noquote", "noterm"}

ExtractNames == {<<"a">>, <<"a", ";", "b">>, <<"]", "[">>}

ExtractRecs ==
    {Rec(id, title) : id \in {"1", "2"}, title \in {<<"x">>, <<"y", "]">>}}
    \cup {Rec("1", <<"[", "z">>), NoTitle("1"), NoId(<<"x">>)}

ExtractFixtures ==
    {Fixture(nk, name, gk, recs) :
        nk \in NameKinds, name \in ExtractNames, gk \in {"ok", "noclose"},
        recs \in SeqsUpTo(ExtractRecs, MaxRecs)}
    \cup
    {Fixture(nk, name, gk, <<>>) :
        nk \in NameKinds, name \in ExtractNames,
        gk \in {"absent", "noopen", "garbage", "scalar"}}

InitExtract ==
    /\ pc = "call"
    /\ player_data = <<>>
    /\ master_games = <<>>
    /\ first_title = <<>>
    /\ shared_games = NotComputed
    /\ chart = FALSE
    /\ fault = ""
    /\ \E fx \in ExtractFixtures :
         last = Attempt(<<>>, <<>>, Viable, fx,
                        NoOutcome("pending", "fetch"), <<>>)

ExtractStep ==
    /\ pc = "call"
    /\ pc' = "return"
    /\ LET out == get_player_and_games(LoadPage(Response(last.resp, last.fx)),
                                       master_games, first_title)
       IN  /\ last' = Attempt(last.raw, last.url, last.resp, last.fx, out,
                              master_games)
           /\ master_games' = out.master
           /\ first_title' = out.first
    /\ UNCHANGED <<player_data, shared_games, chart, fault>>

SpecExtract == InitExtract /\ [][ExtractStep]_vars

(***************************************************************************)
(* The same entry resolved twice: the call of ExtractStep, then a second   *)
(* call on the same page with master_games as the first call left it.      *)
(***************************************************************************)
RetryStep ==
    /\ pc = "return"
    /\ pc' = "retried"
    /\ LET out == get_player_and_games(LoadPage(Response(last.resp, last.fx)),
                                       master_games, first_title)
       IN  /\ last' = Attempt(last.raw, last.url, last.resp, last.fx, out,
                              master_games)
           /\ master_games' = out.master
           /\ first_title' = out.first
    /\ UNCHANGED <<player_data, shared_games, chart, fault>>

NextRetry == ExtractStep \/ RetryStep

SpecRetry == InitExtract /\ [][NextRetry]_vars

(***************************************************************************)
(* find_common_games on its own: one call on any player list and catalog.  *)
(***************************************************************************)
Num(c) == [t |-> "num", v |-> <<c>>]

Str(chars) == [t |-> "str", v |-> chars]

OwnedIds == {Num("1"), Num("2")}

CatalogIds == {Num("1"), Num("2"), Num("3")}

\* the dicts over CatalogIds, in every key order
Catalogs ==
    {d \in SeqsUpTo([k : CatalogIds, v : {Str(<<"x">>)}], 2) :
        \A m, n \in 1..Len(d) : d[m].k = d[n].k => m = n}

PlayerLists ==
    SeqsUpTo([nick : {<<"a">>}, games : SUBSET OwnedIds], MaxOwners)

InitCommon ==
    /\ pc = "call"
    /\ player_data \in PlayerLists
    /\ master_games \in Catalogs
    /\ first_title = master_games
    /\ shared_games = NotComputed
    /\ chart = FALSE
    /\ fault = ""
    /\ last = NoAttempt("none")

CommonStep ==
    /\ pc = "call"
    /\ pc' = "return"
    /\ shared_games' = find_common_games(player_data, master_games)
    /\ UNCHANGED <<player_data, master_games, first_title, chart, fault, last>>

SpecCommon == InitCommon /\ [][CommonStep]_vars

(***************************************************************************)
(* Properties                                                              *)
(***************************************************************************)
Range(f) == {f[n] : n \in DOMAIN f}

\* the latest entry was fetched (status 200, an HTML document)
Fetched == last.resp.status = 200 /\ last.resp.html

\* the latest entry was fetched and its page has the game-list element
FetchedViable == Fetched /\ last.resp.games_list

\* C1: for every appid in master_games the stored title is the title of the
\* first record that introduced the appid; later records never change it.
\* Checked under Spec.
C1_FirstTitleKept ==
    \A g \in Keys(master_games) :
        DictGet(master_games, g) = DictGet(first_title, g)

\* C2: whenever a viable page fails during game-list extraction,
\* master_games is what it was before the attempt.  Checked under Spec.
C2_FailureLeavesCatalog ==
    (FetchedViable /\ last.stage = "games" /\ last.exc # "ok")
        => master_games = last.pre_master

\* C3: the result of find_common_games holds appid g exactly when g is a key
\* of master_games owned by more than one player, and the list stored for g
\* has one boolean per player, true exactly for the owners, in list order.
\* Checked under SpecCommon.
Owners(g) == {n \in 1..Len(player_data) : g \in player_data[n].games}

C3_CommonGames ==
    pc = "return" =>
        /\ \A g \in CatalogIds \cup OwnedIds :
              g \in Keys(shared_games.d)
                  <=> (g \in Keys(master_games) /\ Cardinality(Owners(g)) > 1)
        /\ \A g \in Keys(shared_games.d) :
              /\ Len(DictGet(shared_games.d, g)) = Len(player_data)
              /\ \A n \in 1..Len(player_data) :
                    DictGet(shared_games.d, g)[n] <=> n \in Owners(g)

\* C3 witness: three players, an appid owned by two of them only is in the
\* result, an appid owned by one is not, nor is a shared appid that the
\* catalog lacks.
C3_Witness ==
    /\ pc = "return"
    /\ Len(player_data) = 3
    /\ Owners(Num("1")) = {1, 3}
    /\ Owners(Num("2")) = {2}
    /\ Keys(master_games) = {Num("1"), Num("2")}
    /\ Keys(shared_games.d) = {Num("1")}

\* C4: every appid in the games of a player of player_data is a key of
\* master_games.  Checked under Spec.
C4_OwnedInCatalog ==
    \A n \in 1..Len(player_data) :
        player_data[n].games \subseteq Keys(master_games)

\* C4 witness: a player owning games is in the list and a later attempt
\* failed on its game list.
C4_Witness ==
    /\ Len(player_data) >= 1
    /\ player_data[1].games # {}
    /\ last.stage = "games"
    /\ last.exc \in {"FindGamesError", "KeyError"}

\* C5: a viable page whose name is extractable and whose game list is
\* absent, unbracketed, undecodable or has an incomplete record fails with
\* FindGamesError and nothing else.  Checked under SpecExtract.
GameListDefect(fx) == fx.gk # "ok" \/ ~Complete(fx.recs)

C5_GamesErrorOnly ==
    (/\ pc = "return"
     /\ FetchedViable
     /\ ExtractName(Render(last.fx)).exc = "ok"
     /\ GameListDefect(last.fx))
        => last.exc = "FindGamesError"

\* C6: a viable page whose name marker is absent or whose name delimiters
\* cannot be matched fails with FindNameError and nothing else.  Checked
\* under SpecExtract.
NameDefect(fx) == fx.nk # "ok" \/ ";" \in Range(fx.name)

C6_NameErrorOnly ==
    (pc = "return" /\ FetchedViable /\ NameDefect(last.fx))
        => last.exc = "FindNameError"

\* C7: a viable page embedding the well-formed encodings of a name and of
\* a list of {appid, name} records is extracted to that name and those
\* appids, and master_games then maps each appid to its title.  Checked
\* under SpecExtract.
SameTitles(recs) ==
    \A m, n \in 1..Len(recs) : recs[m].id = recs[n].id => recs[m].title = recs[n].title

C7_RoundTrip ==
    (/\ pc = "return"
     /\ FetchedViable
     /\ WellFormed(last.fx)
     /\ SameTitles(last.fx.recs))
        => /\ last.exc = "ok"
           /\ last.name = last.fx.name
           /\ last.games = {Num(last.fx.recs[n].id) : n \in 1..Len(last.fx.recs)}
           /\ \A n \in 1..Len(last.fx.recs) :
                 /\ Num(last.fx.recs[n].id) \in Keys(master_games)
                 /\ DictGet(master_games, Num(last.fx.recs[n].id))
                        = Str(last.fx.recs[n].title)

\* C8: a fetched page is classified by its elements alone: with the
\* game-list element extraction is attempted, also when the private element
\* is there too; with the private element only the outcome is
\* PrivateProfile; with neither it is MissingProfile.  Checked under Spec.
C8_Classification ==
    Fetched =>
        /\ last.resp.games_list => last.stage \in {"name", "games", "done"}
        /\ (last.resp.private /\ ~last.resp.games_list)
              => last.exc = "PrivateProfile"
        /\ (~last.resp.private /\ ~last.resp.games_list)
              => last.exc = "MissingProfile"

\* C8 witness: a page with both elements was resolved.
C8_Witness ==
    /\ Fetched
    /\ last.resp.games_list
    /\ last.resp.private
    /\ last.exc = "ok"
    /\ Len(player_data) >= 1

\* C10: a raw identifier starting with a recognized prefix is normalized to
\* the scheme, the host and style of the prefix, and the characters up to
\* the first '/' after the prefix; the scheme occurs once and no '/'
\* follows the prefix.  Checked under SpecNorm.
StartsWith(s, p) == Len(p) <= Len(s) /\ SubSeq(s, 1, Len(p)) = p

\* the characters of s before its first '/'
UpToSlash(s) ==
    LET stops == {n \in 1..Len(s) : s[n] = "/"} \cup {Len(s) + 1}
    IN  SubSeq(s, 1, (CHOOSE n \in stops : \A m \in stops : n <= m) - 1)

C10_Normalized ==
    pc = "return" =>
        \A lead \in {<<>>, SCHEME}, style \in {PROFILES, ID} :
            StartsWith(last.raw, lead \o HOST \o style) =>
                LET rest == SubSeq(last.raw, Len(lead \o HOST \o style) + 1,
                                   Len(last.raw))
                IN  /\ last.exc = "ok"
                    /\ last.url = SCHEME \o HOST \o style \o UpToSlash(rest)
                    /\ Cardinality({i \in 0..Len(last.url) :
                                      OccursAt(last.url, SCHEME, i)}) = 1
                    /\ \A n \in (Len(SCHEME \o HOST \o style) + 1)..Len(last.url) :
                          last.url[n] # "/"

\* C10 witness: an identifier without scheme and with a trailing path was
\* normalized.
C10_Witness ==
    /\ pc = "return"
    /\ last.raw = HOST \o ID \o <<"7", "/", "h">>
    /\ last.url = SCHEME \o HOST \o ID \o <<"7">>

\* the addresses a call of verify_steam_url_format hands back
Candidates(att) == IF att.exc = "ok" THEN <<att.url>> ELSE <<>>

\* an entry that is one path segment: no scheme, no host, no '/'
Bare(raw) == raw # <<>> /\ "/" \notin Range(raw)

\* the entry starts with one of the four accepted forms
Recognized(raw) ==
    \E lead \in {<<>>, SCHEME}, style \in {PROFILES, ID} :
        StartsWith(raw, lead \o HOST \o style)

C12_MalformedNoEffect ==
    [][(last'.raw # <<>> /\ ~Recognized(last'.raw))
          => /\ last'.exc = "MalformedSteamURL"
             /\ last'.resp = NoHeader
             /\ last'.url = <<>>
             /\ player_data' = player_data
             /\ master_games' = master_games]_vars

\* C12 witness: with a player in the list and a game in the catalog, an
\* entry holding the prefix after another character was refused.
C12_Witness ==
    /\ last.raw = <<"x">> \o HOST \o ID \o <<"a">>
    /\ last.exc = "MalformedSteamURL"
    /\ Len(player_data) >= 1
    /\ master_games # <<>>

\* C13: a response whose status is not 200 or whose content type is not
\* HTML raises out of get_html before the page is classified: the outcome
\* is the assertion failure, it leaves the input loop uncaught, no player
\* is added and master_games is unchanged.  Checked under Spec.
C13_TransportFault ==
    [][(last'.resp # NoHeader /\ ~(last'.resp.status = 200 /\ last'.resp.html))
          => /\ last'.exc = "AssertionError"
             /\ last'.stage = "fetch"
             /\ pc' = "crashed"
             /\ fault' = "AssertionError"
             /\ player_data' = player_data
             /\ master_games' = master_games]_vars

\* C13 witness: after a player was resolved, a page carrying both elements
\* came back with status 200 and a content type other than HTML.
C13_Witness ==
    /\ pc = "crashed"
    /\ fault = "AssertionError"
    /\ last.resp.status = 200
    /\ ~last.resp.html
    /\ last.resp.games_list
    /\ Len(player_data) >= 1

\* C14: player_data is append-only.  An attempt that resolves appends one
\* record, its name and its games, at the end; any other attempt leaves
\* the list as it is; no step changes or moves a record already there.
\* Checked under Spec.
C14_AppendOnly ==
    [][/\ Len(player_data') >= Len(player_data)
       /\ \A n \in 1..Len(player_data) : player_data'[n] = player_data[n]
       /\ IF pc' = "input" /\ last'.exc = "ok"
          THEN player_data' = Append(player_data,
                                     [nick |-> last'.name, games |-> last'.games])
          ELSE player_data' = player_data]_vars

\* C14 witness: a second player was appended behind a different first one.
C14_Witness ==
    /\ Len(player_data) = 2
    /\ player_data[1].games # player_data[2].games
    /\ player_data[1].nick # player_data[2].nick
    /\ last.exc = "ok"
    /\ player_data[2] = [nick |-> last.name, games |-> last.games]

\* C15: find_common_games returns None exactly when no appid of
\* master_games is owned by more than one player; it never returns an
\* empty dict.  Checked under SpecCommon.
C15_NoneIffNoOverlap ==
    pc = "return" =>
        /\ shared_games.none
              <=> ~\E g \in Keys(master_games) : Cardinality(Owners(g)) > 1
        /\ shared_games.none => shared_games.d = <<>>
        /\ ~shared_games.none => Len(shared_games.d) > 0

\* C15 witness: two players own games of the catalog, none of them the
\* same, and the result is None.
C15_Witness ==
    /\ pc = "return"
    /\ shared_games.none
    /\ Len(player_data) = 2
    /\ player_data[1].games = {Num("1")}
    /\ player_data[2].games = {Num("2")}
    /\ Keys(master_games) = {Num("1"), Num("2")}

\* C16: the appids of the result of find_common_games come in the order in
\* which they were first stored in master_games (players in the order they
\* were resolved, records in the order of each list); storing an appid
\* again does not move it.  Checked under Spec.
KeySeq(d) == [n \in 1..Len(d) |-> d[n].k]

\* position of a key of d
Position(d, key) == CHOOSE n \in 1..Len(d) : d[n].k = key

C16_InsertionOrder ==
    /\ KeySeq(master_games) = KeySeq(first_title)
    /\ \A m, n \in 1..Len(shared_games.d) :
          m < n => Position(master_games, shared_games.d[m].k)
                       < Position(master_games, shared_games.d[n].k)

\* C16 witness: appids 1 and 2 were stored in that order, seen again in the
\* other order with another title for 1, and the result lists 1 before 2.
C16_Witness ==
    /\ pc = "done"
    /\ KeySeq(shared_games.d) = <<Num("1"), Num("2")>>
    /\ last.fx.recs = <<Rec("2", <<"x">>), Rec("1", <<"x">>)>>
    /\ DictGet(first_title, Num("1")) = Str(<<"y">>)
    /\ DictGet(master_games, Num("1")) = Str(<<"x">>)

\* C17: resolving the same entry again on the same page gives the outcome
\* of the first time, the same name and games or the same exception, and
\* leaves master_games as the first resolution left it.  Checked under
\* SpecRetry.
C17_RetrySame ==
    [][pc = "return"
          => /\ last'.exc = last.exc
             /\ last'.stage = last.stage
             /\ last'.name = last.name
             /\ last'.games = last.games
             /\ master_games' = master_games]_vars

\* C17 witness: a page whose second record lacks its title was resolved
\* twice; the record stored by the first call is in master_games once.
C17_Witness ==
    /\ pc = "retried"
    /\ last.exc = "KeyError"
    /\ Len(master_games) = 1
    /\ last.pre_master = master_games

\* C18: when find_common_games returns None, main reports it, writes no
\* chart and returns without an exception.  Checked under Spec.
C18_NoOverlapEndsNormally ==
    shared_games.none => (pc = "done" /\ fault = "" /\ ~chart)

\* C19: find_player_data returns only on an empty entry made with two or
\* more players in the list; an empty entry made with fewer is refused and
\* the loop goes on with player_data and master_games as they were, so
\* find_common_games is never called on fewer than two players.  Checked
\* under Spec.
C19_TwoPlayersToFinish ==
    [][/\ shared_games' # shared_games
          => (Len(player_data) >= 2 /\ player_data' = player_data)
       /\ (pc = "input" /\ pc' = "done") => Len(player_data) >= 2
       /\ last'.exc = "rejected"
          => /\ Len(player_data) < 2
             /\ pc' = "input"
             /\ player_data' = player_data
             /\ master_games' = master_games
             /\ shared_games' = NotComputed]_vars

\* C19 witness: with one player resolved an empty entry was refused and the
\* loop still awaits entries.
C19_Witness ==
    /\ pc = "input"
    /\ last.exc = "rejected"
    /\ Len(player_data) = 1
    /\ shared_games = NotComputed

====
